---- MODULE Spec2Model ----
(***************************************************************************)
(* rpgstats: the raw_posts store (db/raw_posts.py, db/upsert.py), the      *)
(* sitemap ingestion and the resumable extract-posts batch loop (cli.py).  *)
(*                                                                         *)
(* A SQL value that may be NULL is modelled as a sequence of length <= 1:  *)
(* <<>> is NULL, <<v>> is the value v.  A text value '' is <<"">>.         *)
(***************************************************************************)
EXTENDS Integers, Sequences, FiniteSets, TLC

\* ---------------------------------------------------------------- bounds
MaxLimit    == 2   \* --limit values tried: 1..MaxLimit
MaxRepeat   == 2   \* --repeat values tried: 1..MaxRepeat
MaxPagesOpt == 2   \* --max-pages values tried: -1..MaxPagesOpt
MaxAttempts == 2   \* merges applied to one record in MergeSpec

\* ------------------------------------------------------- program constants
UntilEmptyRepeat == 1000000000          \* cli.py:132  repeat = 10**9

URLS     == {"u1", "u2"}                \* URLs the sitemap feed can carry
LASTMODS == {<<>>, <<1>>, <<2>>}        \* lastmod of a feed entry (or none)

None    == <<>>
Some(v) == <<v>>

Min(a, b) == IF a < b THEN a ELSE b

\* the function f with key k set to v
Put(f, k, v) == [x \in DOMAIN f \cup {k} |-> IF x = k THEN v ELSE f[x]]

\* ------------------------------------------------------------------ state
VARIABLES
    store,            \* table raw_posts: url -> row
    clock,            \* the database clock read by now()
    pc,               \* position of the extract-posts command
    limit, repeat, until_empty, max_pages,      \* its options
    batch_num, total_processed, total_updated,  \* locals of extract_posts
    rows, i, updated, processed,                \* locals of _run_extract_batch
    ex,               \* PostExtract of the record processed last
    outcome,          \* how the record processed last ended
    stop,             \* which break ended the loop
    attempted,        \* history: urls whose page fetch was ever attempted
    snapshot, rerun,  \* history: store at the end of an exhausted run; a run started since
    runlog,           \* history: url -> what the latest run did to it: <<>> after a
                      \* failed attempt, <<row>> with the row its merge committed
    inf               \* one call of an inference function: arguments, locals, result

vars == <<store, clock, pc, limit, repeat, until_empty, max_pages,
          batch_num, total_processed, total_updated,
          rows, i, updated, processed, ex, outcome, stop,
          attempted, snapshot, rerun, runlog, inf>>

runVars  == <<pc, limit, repeat, until_empty, max_pages,
              batch_num, total_processed, total_updated,
              rows, i, updated, processed, ex, outcome, stop, attempted, runlog>>

\* ------------------------------------------------------------ SQL helpers
\* nullif(x, '')
NullIfEmpty(x) == IF x = Some("") THEN None ELSE x

Coalesce_Overwrite(new, old) == new

Coalesce_KeepOld(new, old) == IF old # None THEN old ELSE new

\* coalesce(new, old)
Coalesce(new, old) == IF new # None THEN new ELSE old

\* ------------------------------------------------------------- the store
\* a row as insert (url, lastmod) creates it: every other column at its default
DefaultRow(lm) ==
    [lastmod |-> lm,
     title |-> None, author |-> None, published_at |-> None, tags |-> None,
     group_name |-> None, system_name |-> None, campaign_name |-> None,
     duration_seconds |-> None, duration_source |-> None,
     download_url |-> None, file_size_bytes |-> None, youtube_urls |-> None,
     extracted_at |-> None, extract_attempts |-> 0, last_extract_error |-> None]

upsert_raw_post_Replace(s, url, lm) ==
    [u \in DOMAIN s \cup {url} |-> IF u = url THEN DefaultRow(lm) ELSE s[u]]

\* insert ... on conflict (url) do update set lastmod = excluded.lastmod
upsert_raw_post(s, url, lm) ==
    IF url \in DOMAIN s
    THEN [s EXCEPT ![url].lastmod = lm]
    ELSE [u \in DOMAIN s \cup {url} |-> IF u = url THEN DefaultRow(lm) ELSE s[u]]

\* update raw_posts set extracted_at = now(), extract_attempts + 1, last_extract_error
\* (defined in raw_posts.py; cli.py neither imports nor calls it)
mark_extract_error(s, url, error, now) ==
    IF url \in DOMAIN s
    THEN [s EXCEPT ![url].extracted_at = Some(now),
                   ![url].extract_attempts = @ + 1,
                   ![url].last_extract_error = Some(error)]
    ELSE s

\* update raw_posts set <column> = coalesce(...), ... where url = %s
update_post_extracted(s, url, e, now) ==
    IF url \in DOMAIN s
    THEN [s EXCEPT ![url] =
            [@ EXCEPT
               !.title            = Coalesce(NullIfEmpty(e.title), @),
               !.author           = Coalesce(NullIfEmpty(e.author), @),
               !.published_at     = Coalesce(e.published_at, @),
               !.tags             = Coalesce(e.tags, @),
               !.group_name       = Coalesce(NullIfEmpty(e.group_name), @),
               !.system_name      = Coalesce(NullIfEmpty(e.system_name), @),
               !.campaign_name    = Coalesce(NullIfEmpty(e.campaign_name), @),
               !.duration_seconds = Coalesce(e.duration_seconds, @),
               !.duration_source  = IF e.duration_seconds = None THEN @ ELSE Some("wp_html"),
               !.download_url     = Coalesce(NullIfEmpty(e.download_url), @),
               !.file_size_bytes  = Coalesce(e.file_size_bytes, @),
               !.youtube_urls     = Coalesce(e.youtube_urls, @),
               !.extracted_at     = Some(now),
               !.extract_attempts = @ + 1,
               !.last_extract_error = None]]
    ELSE s

\* the where clause's test that a derived column is still missing
Incomplete(r) ==
    \/ r.duration_seconds = None
    \/ r.tags = None
    \/ r.author = None
    \/ r.group_name = None \/ r.group_name = Some("")
    \/ r.system_name = None \/ r.system_name = Some("")
    \/ r.campaign_name = None \/ r.campaign_name = Some("")

\* the where clause of get_posts_needing_extract
NeedsExtract_Reattempt(r) ==
    Incomplete(r)

NeedsExtract(r) ==
    /\ r.extracted_at = None
    /\ Incomplete(r)

\* order by lastmod desc nulls last: a sorts strictly before b
SortsBefore(a, b) ==
    /\ a # None
    /\ (b = None \/ a[1] > b[1])

\* the urls of E that no other url of E sorts strictly before
Top(s, E) == {u \in E : \A v \in E : ~SortsBefore(s[v].lastmod, s[u].lastmod)}

\* the result lists of "order by lastmod desc nulls last limit n" over the rows E
\* (rows with equal lastmod come in either order)
RECURSIVE OrderLimit(_, _, _)
OrderLimit(s, E, n) ==
    IF n <= 0 \/ E = {} THEN {<<>>}
    ELSE UNION {{<<[url |-> u, lastmod |-> s[u].lastmod]>> \o t : t \in OrderLimit(s, E \ {u}, n - 1)}
                : u \in Top(s, E)}

get_posts_needing_extract(s, n) ==
    OrderLimit(s, {u \in DOMAIN s : NeedsExtract(s[u])}, n)


\* ------------------------------------------------------- the field extractor
\* What one fetched page yields: the texts and matches extract_post_fields reads
\* off the document, and the names the inference functions return for it.
\* a page none of whose fields can be derived
EmptyPage ==
    [h1 |-> None, time |-> None, author |-> None, tag_texts |-> <<>>,
     download_href |-> None, duration |-> None, size |-> None, iframes |-> <<>>,
     group |-> None, system |-> None, campaign |-> None]

\* a page with every field
FullPage1 ==
    [h1 |-> Some("T1"), time |-> Some(7), author |-> Some("A1"), tag_texts |-> <<"g", "s">>,
     download_href |-> Some("D1"), duration |-> Some(2892), size |-> Some(1024), iframes |-> <<"y">>,
     group |-> Some("G1"), system |-> Some("S1"), campaign |-> Some("C1")]

\* the same post after an edit: every field with another value
FullPage2 ==
    [h1 |-> Some("T2"), time |-> Some(8), author |-> Some("A2"), tag_texts |-> <<"s", "g", "s", "x">>,
     download_href |-> Some("D2"), duration |-> Some(7734), size |-> Some(2048), iframes |-> <<"z">>,
     group |-> Some("G2"), system |-> Some("S2"), campaign |-> Some("C2")]

\* a page whose heading, author and download link are there but hold no text
BlankTextPage ==
    [h1 |-> Some(""), time |-> None, author |-> Some(""), tag_texts |-> <<"g">>,
     download_href |-> Some(""), duration |-> None, size |-> None, iframes |-> <<>>,
     group |-> None, system |-> None, campaign |-> None]

\* pages the batch loop fetches
PAGES == {EmptyPage, FullPage1, BlankTextPage}

\* pages with exactly one field, on top of the above
MERGE_PAGES ==
    PAGES \cup {FullPage2} \cup
    { [EmptyPage EXCEPT !.h1 = Some("T2")],
      [EmptyPage EXCEPT !.time = Some(8)],
      [EmptyPage EXCEPT !.author = Some("A2")],
      [EmptyPage EXCEPT !.tag_texts = <<"x">>],
      [EmptyPage EXCEPT !.download_href = Some("D2")],
      [EmptyPage EXCEPT !.download_href = Some("D2"), !.duration = Some(7734)],
      [EmptyPage EXCEPT !.download_href = Some("D2"), !.size = Some(2048)],
      [EmptyPage EXCEPT !.iframes = <<"z">>],
      [EmptyPage EXCEPT !.group = Some("G2")],
      [EmptyPage EXCEPT !.system = Some("S2")],
      [EmptyPage EXCEPT !.campaign = Some("C2")] }

Range(q) == {q[k] : k \in DOMAIN q}

ListOrNone_KeepEmpty(texts) == Some(Range(texts))

\* sorted(set(texts)) if texts else None; a sorted duplicate-free list is
\* represented by the set of its elements
ListOrNone(texts) == IF texts = <<>> THEN None ELSE Some(Range(texts))

\* the PostExtract built from a page
extract_post_fields(p) ==
    [title            |-> p.h1,
     author           |-> p.author,
     published_at     |-> p.time,
     tags             |-> ListOrNone(p.tag_texts),
     group_name       |-> p.group,
     system_name      |-> p.system,
     campaign_name    |-> p.campaign,
     duration_seconds |-> IF p.download_href # None THEN p.duration ELSE None,
     download_url     |-> p.download_href,
     file_size_bytes  |-> IF p.download_href # None THEN p.size ELSE None,
     youtube_urls     |-> ListOrNone(p.iframes)]

NoExtract == extract_post_fields(EmptyPage)

\* -------------------------------------------------------------- the loop

\* no inference call is being looked at
NoInference == [fn |-> "none"]
\* "max_pages and total_processed >= max_pages"
CapReached_Off(mp, total) == mp # 0 /\ total > mp

CapReached(mp, total) == mp # 0 /\ total >= mp

\* Counters that only grow while a record keeps failing are kept exact up to
\* the largest value a comparison in the loop can tell apart, and held there.
BatchNumCap == MaxRepeat + 1
TotalCap    == MaxPagesOpt + MaxLimit
NextBatchNum(b) == IF b < BatchNumCap THEN b + 1 ELSE b
AddTotal(t, n)  == Min(t + n, TotalCap)

Init ==
    /\ store = [u \in {} |-> DefaultRow(None)]
    /\ clock = 0
    /\ pc = "idle"
    /\ limit = 0 /\ repeat = 0 /\ until_empty = FALSE /\ max_pages = 0
    /\ batch_num = 0 /\ total_processed = 0 /\ total_updated = 0
    /\ rows = <<>> /\ i = 0 /\ updated = 0 /\ processed = 0
    /\ ex = NoExtract
    /\ outcome = "none"
    /\ stop = "none"
    /\ attempted = {}
    /\ snapshot = None
    /\ rerun = FALSE
    /\ runlog = <<>>
    /\ inf = NoInference

\* crawl-sitemap: one (loc, lastmod) of the feed is upserted and committed.
\* The commands are run one after the other (no concurrent access to the
\* backlog), so the feed is ingested between extraction runs.
Ingest ==
    /\ pc \in {"idle", "crashed"}
    /\ \E u \in URLS, lm \in LASTMODS :
        store' = upsert_raw_post(store, u, lm)
    /\ snapshot' = IF store' = store THEN snapshot ELSE None
    /\ rerun' = IF store' = store THEN rerun ELSE FALSE
    /\ UNCHANGED <<inf, clock, runVars>>

\* extract-posts is invoked: options parsed, counters zeroed
StartRun ==
    /\ pc \in {"idle", "crashed"}
    /\ \E lim \in 1..MaxLimit, rep \in 1..MaxRepeat, ue \in BOOLEAN, mp \in (-1)..MaxPagesOpt :
        /\ limit' = lim
        /\ until_empty' = ue
        /\ repeat' = IF ue THEN UntilEmptyRepeat ELSE rep
        /\ max_pages' = mp
    /\ batch_num' = 1
    /\ total_processed' = 0 /\ total_updated' = 0
    /\ rows' = <<>> /\ i' = 0 /\ updated' = 0 /\ processed' = 0
    /\ outcome' = "none" /\ stop' = "none"
    /\ pc' = "loop"
    /\ rerun' = (snapshot # None)
    /\ runlog' = <<>>
    /\ UNCHANGED <<inf, store, clock, ex, attempted, snapshot>>

\* range(1, repeat + 1) is exhausted
LoopExhausted ==
    /\ pc = "loop"
    /\ batch_num > repeat
    /\ pc' = "done" /\ stop' = "repeat"
    /\ UNCHANGED <<inf, store, clock, limit, repeat, until_empty, max_pages, batch_num,
                   total_processed, total_updated, rows, i, updated, processed,
                   ex, outcome, attempted, snapshot, rerun, runlog>>

\* the check at the head of the loop body breaks (after a batch the same check
\* at the end of the body has already left the loop, so this one only breaks
\* in the first turn, with a negative --max-pages)
LoopCapBreak ==
    /\ pc = "loop"
    /\ batch_num <= repeat
    /\ CapReached(max_pages, total_processed)
    /\ pc' = "done" /\ stop' = "max_pages"
    /\ UNCHANGED <<inf, store, clock, limit, repeat, until_empty, max_pages, batch_num,
                   total_processed, total_updated, rows, i, updated, processed,
                   ex, outcome, attempted, snapshot, rerun, runlog>>

\* _run_extract_batch begins: the batch is selected
BatchSelect ==
    /\ pc = "loop"
    /\ batch_num <= repeat
    /\ ~CapReached(max_pages, total_processed)
    /\ \E rs \in get_posts_needing_extract(store, limit) :
        /\ rows' = rs
        /\ IF rs = <<>>
           THEN pc' = "tally" /\ processed' = 0 /\ updated' = 0 /\ i' = 0
           ELSE pc' = "batch" /\ processed' = processed /\ updated' = 0 /\ i' = 1
    /\ UNCHANGED <<inf, store, clock, limit, repeat, until_empty, max_pages, batch_num,
                   total_processed, total_updated, ex, outcome, stop, attempted,
                   snapshot, rerun, runlog>>

\* the try block runs to its end for rows[i]: fetched, extracted, merged, committed
ProcessOk ==
    /\ pc = "batch" /\ i <= Len(rows)
    /\ \E p \in PAGES :
        /\ ex' = extract_post_fields(p)
        /\ clock' = clock + 1
        /\ store' = update_post_extracted(store, rows[i].url, ex', clock')
    /\ updated' = updated + 1
    /\ outcome' = "ok"
    /\ attempted' = attempted \cup {rows[i].url}
    /\ runlog' = Put(runlog, rows[i].url, Some(store'[rows[i].url]))
    /\ i' = i + 1
    /\ UNCHANGED <<inf, pc, limit, repeat, until_empty, max_pages, batch_num,
                   total_processed, total_updated, rows, processed, stop,
                   snapshot, rerun>>

ProcessFail_Abort ==
    /\ pc = "batch" /\ i <= Len(rows)
    /\ \E o \in {"fetch_failed", "raised"} : outcome' = o
    /\ attempted' = attempted \cup {rows[i].url}
    /\ runlog' = Put(runlog, rows[i].url, None)
    /\ i' = Len(rows) + 1
    /\ UNCHANGED <<inf, store, clock, pc, limit, repeat, until_empty, max_pages, batch_num,
                   total_processed, total_updated, rows, updated, processed, ex, stop,
                   snapshot, rerun>>

\* the try block raises for rows[i] (client.get, raise_for_status, the extraction
\* or the update before its commit): the except clause prints and goes on
ProcessFail ==
    /\ pc = "batch" /\ i <= Len(rows)
    /\ \E o \in {"fetch_failed", "raised"} : outcome' = o
    /\ attempted' = attempted \cup {rows[i].url}
    /\ runlog' = Put(runlog, rows[i].url, None)
    /\ i' = i + 1
    /\ UNCHANGED <<inf, store, clock, pc, limit, repeat, until_empty, max_pages, batch_num,
                   total_processed, total_updated, rows, updated, processed, ex, stop,
                   snapshot, rerun>>

\* return len(rows), updated
BatchReturn ==
    /\ pc = "batch" /\ i > Len(rows)
    /\ processed' = Len(rows)
    /\ pc' = "tally"
    /\ UNCHANGED <<inf, store, clock, limit, repeat, until_empty, max_pages, batch_num,
                   total_processed, total_updated, rows, i, updated, ex, outcome, stop,
                   attempted, snapshot, rerun, runlog>>

Tally_StopOnNoUpdate ==
    /\ pc = "tally"
    /\ total_processed' = AddTotal(total_processed, processed)
    /\ total_updated' = total_updated + updated
    /\ IF updated = 0
       THEN /\ pc' = "done" /\ stop' = "empty" /\ batch_num' = batch_num
            /\ snapshot' = IF snapshot = None THEN Some(store) ELSE snapshot
       ELSE /\ snapshot' = snapshot
            /\ IF CapReached(max_pages, total_processed')
               THEN pc' = "done" /\ stop' = "max_pages" /\ batch_num' = batch_num
               ELSE pc' = "loop" /\ stop' = stop /\ batch_num' = NextBatchNum(batch_num)
    /\ UNCHANGED <<inf, store, clock, limit, repeat, until_empty, max_pages,
                   rows, i, updated, processed, ex, outcome, attempted, rerun, runlog>>

\* the totals are added up and the two breaks after a batch are tried
Tally ==
    /\ pc = "tally"
    /\ total_processed' = AddTotal(total_processed, processed)
    /\ total_updated' = total_updated + updated
    /\ IF processed = 0
       THEN /\ pc' = "done" /\ stop' = "empty" /\ batch_num' = batch_num
            /\ snapshot' = IF snapshot = None THEN Some(store) ELSE snapshot
       ELSE /\ snapshot' = snapshot
            /\ IF CapReached(max_pages, total_processed')
               THEN pc' = "done" /\ stop' = "max_pages" /\ batch_num' = batch_num
               ELSE pc' = "loop" /\ stop' = stop /\ batch_num' = NextBatchNum(batch_num)
    /\ UNCHANGED <<inf, store, clock, limit, repeat, until_empty, max_pages,
                   rows, i, updated, processed, ex, outcome, attempted, rerun, runlog>>

\* the totals are printed and the process ends; its locals are gone
Exit ==
    /\ pc = "done"
    /\ pc' = "idle"
    /\ limit' = 0 /\ repeat' = 0 /\ until_empty' = FALSE /\ max_pages' = 0
    /\ batch_num' = 0 /\ total_processed' = 0 /\ total_updated' = 0
    /\ rows' = <<>> /\ i' = 0 /\ updated' = 0 /\ processed' = 0
    /\ ex' = NoExtract /\ outcome' = "none" /\ stop' = "none"
    /\ UNCHANGED <<inf, store, clock, attempted, snapshot, rerun, runlog>>

Crash_LosesBatch ==
    /\ pc \in {"loop", "batch", "tally"}
    /\ pc' = "crashed"
    /\ store' = [u \in DOMAIN store |->
                    IF pc = "batch" /\ \E k \in 1..Len(rows) : k < i /\ rows[k].url = u
                    THEN DefaultRow(store[u].lastmod) ELSE store[u]]
    /\ limit' = 0 /\ repeat' = 0 /\ until_empty' = FALSE /\ max_pages' = 0
    /\ batch_num' = 0 /\ total_processed' = 0 /\ total_updated' = 0
    /\ rows' = <<>> /\ i' = 0 /\ updated' = 0 /\ processed' = 0
    /\ ex' = NoExtract /\ outcome' = "none" /\ stop' = "none"
    /\ UNCHANGED <<inf, clock, attempted, snapshot, rerun, runlog>>

\* the process dies inside the loop: an exception that "except Exception" does
\* not catch (KeyboardInterrupt, a kill) or one raised outside the try block
\* (time.sleep, the select).  What was committed stays; an update that had not
\* reached its commit is rolled back with its connection.
Crash ==
    /\ pc \in {"loop", "batch", "tally"}
    /\ pc' = "crashed"
    /\ limit' = 0 /\ repeat' = 0 /\ until_empty' = FALSE /\ max_pages' = 0
    /\ batch_num' = 0 /\ total_processed' = 0 /\ total_updated' = 0
    /\ rows' = <<>> /\ i' = 0 /\ updated' = 0 /\ processed' = 0
    /\ ex' = NoExtract /\ outcome' = "none" /\ stop' = "none"
    /\ UNCHANGED <<inf, store, clock, attempted, snapshot, rerun, runlog>>

RunStep ==
    \/ LoopExhausted \/ LoopCapBreak \/ BatchSelect
    \/ ProcessOk \/ ProcessFail \/ BatchReturn \/ Tally \/ Exit

Next ==
    \/ Ingest
    \/ StartRun
    \/ LoopExhausted
    \/ LoopCapBreak
    \/ BatchSelect
    \/ ProcessOk
    \/ ProcessFail
    \/ BatchReturn
    \/ Tally
    \/ Exit
    \/ Crash

Spec == Init /\ [][Next]_vars

\* ------------------------------------------------------------------- text
\* A Python str is modelled as the sequence of its characters.

Str(s) == [k \in 1..Len(s) |-> SubSeq(s, k, k)]

UPPER == Str("ABCDEFGHIJKLMNOPQRSTUVWXYZ")
LOWER == Str("abcdefghijklmnopqrstuvwxyz")
DIGITS == Range(Str("0123456789"))
WHITESPACE == {" "}

\* \w of the re module
IsWordChar(c) == c \in Range(UPPER) \cup Range(LOWER) \cup DIGITS \cup {"_"}

lower_char(c) ==
    IF c \in Range(UPPER) THEN LOWER[CHOOSE k \in DOMAIN UPPER : UPPER[k] = c] ELSE c

upper_char(c) ==
    IF c \in Range(LOWER) THEN UPPER[CHOOSE k \in DOMAIN LOWER : LOWER[k] = c] ELSE c

\* str.lower()
lower(s) == [k \in 1..Len(s) |-> lower_char(s[k])]

\* str.capitalize()
capitalize(s) == [k \in 1..Len(s) |-> IF k = 1 THEN upper_char(s[k]) ELSE lower_char(s[k])]

\* g in h
contains(h, g) == \E k \in 0..(Len(h) - Len(g)) : SubSeq(h, k + 1, k + Len(g)) = g

\* least element of a non-empty set of integers
Least(S) == CHOOSE k \in S : \A j \in S : k <= j

\* s.strip(chars)
strip(s, chars) ==
    LET keep == {k \in 1..Len(s) : s[k] \notin chars}
    IN  IF keep = {} THEN <<>>
        ELSE SubSeq(s, Least(keep), CHOOSE k \in keep : \A j \in keep : j <= k)

\* s with the characters of the spans (<<first, last>> pairs) removed
RECURSIVE Delete(_, _)
Delete(s, spans) ==
    IF spans = <<>> THEN s
    ELSE LET sp == spans[Len(spans)]
         IN  Delete(SubSeq(s, 1, sp[1] - 1) \o SubSeq(s, sp[2] + 1, Len(s)),
                    SubSeq(spans, 1, Len(spans) - 1))

\* s.split(sep), sep one character
RECURSIVE split(_, _)
split(s, sep) ==
    LET at == {k \in 1..Len(s) : s[k] = sep}
    IN  IF at = {} THEN <<s>>
        ELSE <<SubSeq(s, 1, Least(at) - 1)>> \o split(SubSeq(s, Least(at) + 1, Len(s)), sep)

\* sep.join(words)
RECURSIVE join(_, _)
join(words, sep) ==
    IF words = <<>> THEN <<>>
    ELSE IF Len(words) = 1 THEN words[1]
    ELSE words[1] \o sep \o join(Tail(words), sep)

\* the matches of PAREN_RE = \(([^)]+)\) in t from position p on, leftmost
\* first and not overlapping, as <<position of "(", position of ")">>
RECURSIVE PAREN_RE_spans(_, _)
PAREN_RE_spans(t, p) ==
    IF p > Len(t) THEN <<>>
    ELSE LET close == {k \in (p + 1)..Len(t) : t[k] = ")"}
         IN  IF t[p] = "(" /\ close # {} /\ Least(close) > p + 1
             THEN <<<<p, Least(close)>>>> \o PAREN_RE_spans(t, Least(close) + 1)
             ELSE PAREN_RE_spans(t, p + 1)

\* PAREN_RE.findall(t): the text between the parentheses of each match
PAREN_RE_findall(t) ==
    LET m == PAREN_RE_spans(t, 1)
    IN  [k \in 1..Len(m) |-> SubSeq(t, m[k][1] + 1, m[k][2] - 1)]

\* PAREN_RE.sub("", t)
PAREN_RE_sub(t) == Delete(t, PAREN_RE_spans(t, 1))

\* the last position of the run of characters of cs that starts at p (p - 1 if none)
RECURSIVE RunEnd(_, _, _)
RunEnd(s, p, cs) ==
    IF p <= Len(s) /\ s[p] \in cs THEN RunEnd(s, p + 1, cs) ELSE p - 1

\* where the match of SESSION_NUM_RE = \bSession\s+\d+\b (ignoring case)
\* that starts at p ends; 0 if there is none
SESSION_NUM_RE_match(s, p) ==
    LET word == Str("session")
        sp   == RunEnd(s, p + Len(word), WHITESPACE)
        dg   == RunEnd(s, sp + 1, DIGITS)
    IN  IF /\ (p = 1 \/ ~IsWordChar(s[p - 1]))
           /\ p + Len(word) - 1 <= Len(s)
           /\ lower(SubSeq(s, p, p + Len(word) - 1)) = word
           /\ sp >= p + Len(word)
           /\ dg >= sp + 1
           /\ (dg = Len(s) \/ ~IsWordChar(s[dg + 1]))
        THEN dg ELSE 0

RECURSIVE SESSION_NUM_RE_spans(_, _)
SESSION_NUM_RE_spans(s, p) ==
    IF p > Len(s) THEN <<>>
    ELSE IF SESSION_NUM_RE_match(s, p) > 0
         THEN <<<<p, SESSION_NUM_RE_match(s, p)>>>>
                 \o SESSION_NUM_RE_spans(s, SESSION_NUM_RE_match(s, p) + 1)
         ELSE SESSION_NUM_RE_spans(s, p + 1)

\* SESSION_NUM_RE.sub("", s)
SESSION_NUM_RE_sub(s) == Delete(s, SESSION_NUM_RE_spans(s, 1))

\* SLUG_SESSION_RE.sub("", slug), SLUG_SESSION_RE = -session-\d+/?$ (ignoring
\* case): a final "-session-<digits>", with or without a "/" after it, is cut
SLUG_SESSION_RE_sub(slug) ==
    LET word == Str("-session-")
        n    == IF slug # <<>> /\ slug[Len(slug)] = "/" THEN Len(slug) - 1 ELSE Len(slug)
        nd   == {k \in 1..n : \A j \in k..n : slug[j] \in DIGITS}
        d    == IF nd = {} THEN n + 1 ELSE Least(nd)
    IN  IF /\ d <= n
           /\ d - Len(word) >= 1
           /\ lower(SubSeq(slug, d - Len(word), d - 1)) = word
        THEN SubSeq(slug, 1, d - Len(word) - 1)
        ELSE slug

\* re.sub(r"\s{2,}", " ", s)
RECURSIVE collapse_whitespace(_)
collapse_whitespace(s) ==
    IF s = <<>> THEN <<>>
    ELSE LET e == RunEnd(s, 1, WHITESPACE)
         IN  IF e >= 2 THEN <<" ">> \o collapse_whitespace(SubSeq(s, e + 1, Len(s)))
             ELSE <<s[1]>> \o collapse_whitespace(Tail(s))

\* urlparse(url).path: what follows the host, up to a "?" or a "#"
url_path(url) ==
    LET sch  == {k \in 1..(Len(url) - 2) : SubSeq(url, k, k + 2) = Str("://")}
        rest == IF sch = {} THEN url ELSE SubSeq(url, Least(sch) + 3, Len(url))
        cut  == {k \in 1..Len(rest) : rest[k] \in {"?", "#"}}
        body == IF cut = {} THEN rest ELSE SubSeq(rest, 1, Least(cut) - 1)
        sl   == {k \in 1..Len(body) : body[k] = "/"}
    IN  IF sch = {} THEN body
        ELSE IF sl = {} THEN <<>>
        ELSE SubSeq(body, Least(sl), Len(body))

\* ----------------------------------------------------- entity inference

EXACT_SCORE == 10
TAG_WEIGHT == 3
PAGE_WEIGHT == 1

\* Python truth of an optional str or list: neither None nor empty
Truthy(v) == v # None /\ v[1] # <<>>

\* for t in tags: (t, 3), then (m, 3) for each m of PAREN_RE.findall(t)
RECURSIVE tag_haystacks(_)
tag_haystacks(tags) ==
    IF tags = <<>> THEN <<>>
    ELSE LET m == PAREN_RE_findall(tags[1])
         IN  <<<<tags[1], TAG_WEIGHT>>>> \o [k \in 1..Len(m) |-> <<m[k], TAG_WEIGHT>>]
                \o tag_haystacks(Tail(tags))

\* the list of (text, weight) pairs
haystacks(tags, page_text) ==
    (IF Truthy(tags) THEN tag_haystacks(tags[1]) ELSE <<>>)
        \o (IF Truthy(page_text) THEN <<<<page_text[1], PAGE_WEIGHT>>>> ELSE <<>>)

match_score_Cumulative(g_low, h_low, weight) ==
    (IF h_low = g_low THEN EXACT_SCORE ELSE 0) + (IF contains(h_low, g_low) THEN weight ELSE 0)

\* if h_low == g_low: += 10  elif g_low in h_low: += weight
match_score(g_low, h_low, weight) ==
    IF h_low = g_low THEN EXACT_SCORE
    ELSE IF contains(h_low, g_low) THEN weight
    ELSE 0

\* for h, weight in haystacks: what the inner loop adds to scores[g]
RECURSIVE haystack_score(_, _)
haystack_score(g, hs) ==
    IF hs = <<>> THEN 0
    ELSE match_score(lower(g), lower(hs[1][1]), hs[1][2]) + haystack_score(g, Tail(hs))

\* {g: 0 for g in known}: a dict is the list of its <<key, value>> items in
\* insertion order; a name listed twice keeps its first place
RECURSIVE dict_zero(_)
dict_zero(known) ==
    IF known = <<>> THEN <<>>
    ELSE LET front == dict_zero(SubSeq(known, 1, Len(known) - 1))
             g     == known[Len(known)]
         IN  IF \E k \in 1..Len(front) : front[k][1] = g THEN front
             ELSE Append(front, <<g, 0>>)

\* d[key] += n
dict_add(d, key, n) ==
    [k \in 1..Len(d) |-> IF d[k][1] = key THEN <<key, d[k][2] + n>> ELSE d[k]]

\* for g in known: for h, weight in haystacks: ...
RECURSIVE score_all(_, _, _)
score_all(scores, known, hs) ==
    IF known = <<>> THEN scores
    ELSE score_all(dict_add(scores, known[1], haystack_score(known[1], hs)), Tail(known), hs)

RECURSIVE max_item_Last(_)
max_item_Last(items) ==
    IF Len(items) = 1 THEN items[1]
    ELSE LET rest == max_item_Last(Tail(items))
         IN  IF items[1][2] > rest[2] THEN items[1] ELSE rest

\* max(scores.items(), key=lambda kv: kv[1]): the first item of maximal value
RECURSIVE max_item(_)
max_item(items) ==
    IF Len(items) = 1 THEN items[1]
    ELSE LET rest == max_item(Tail(items))
         IN  IF items[1][2] >= rest[2] THEN items[1] ELSE rest

\* the dict scores when the loops are done
infer_scores(known, tags, page_text) ==
    score_all(dict_zero(known), known, haystacks(tags, page_text))

\* known is what load_known_groups() read from data/groups.txt
infer_group_name(known, tags, page_text) ==
    IF known = <<>> THEN None
    ELSE LET best == max_item(infer_scores(known, tags, page_text))
         IN  IF best[2] > 0 THEN Some(best[1]) ELSE None

\* known is what load_known_systems() read from data/systems.txt
infer_system_name(known, tags, page_text) ==
    IF known = <<>> THEN None
    ELSE LET best == max_item(infer_scores(known, tags, page_text))
         IN  IF best[2] > 0 THEN Some(best[1]) ELSE None

\* --------------------------------------------------- campaign inference

NonEmpty(w) == w # <<>>

\* the characters of .strip(" -:") (the model's texts hold no en or em dash)
SEPARATORS == {" ", "-", ":"}

infer_campaign_from_url(url) ==
    IF ~Truthy(url) THEN None
    ELSE LET path  == strip(url_path(url[1]), {"/"})
             segs  == split(path, "/")
             slug  == strip(SLUG_SESSION_RE_sub(strip(lower(segs[Len(segs)]), WHITESPACE)), {"-"})
             words == SelectSeq(split(slug, "-"), NonEmpty)
         IN  IF path = <<>> \/ slug = <<>> \/ words = <<>> THEN None
             ELSE Some(join([k \in 1..Len(words) |-> capitalize(words[k])], <<" ">>))

\* x.lower() if x else None
lower_or_none(x) == IF Truthy(x) THEN Some(lower(x[1])) ELSE None

RECURSIVE campaign_from_tags_RejectRule(_, _, _)
campaign_from_tags_RejectRule(tags, gn_low, sys_low) ==
    IF tags = <<>> THEN None
    ELSE LET parens  == PAREN_RE_findall(tags[1])
             cleaned == strip(PAREN_RE_sub(tags[1]), WHITESPACE)
         IN  IF /\ \E k \in 1..Len(parens) : Some(lower(strip(parens[k], WHITESPACE))) = gn_low
                /\ cleaned # <<>>
             THEN IF \/ (sys_low # None /\ lower(cleaned) = sys_low[1])
                     \/ (gn_low # None /\ lower(cleaned) = gn_low[1])
                  THEN None ELSE Some(cleaned)
             ELSE campaign_from_tags_RejectRule(Tail(tags), gn_low, sys_low)

\* rule 1, for t in tags: the first tag with the group in parentheses whose
\* remainder is not empty and is neither the system nor the group
RECURSIVE campaign_from_tags(_, _, _)
campaign_from_tags(tags, gn_low, sys_low) ==
    IF tags = <<>> THEN None
    ELSE LET parens  == PAREN_RE_findall(tags[1])
             cleaned == strip(PAREN_RE_sub(tags[1]), WHITESPACE)
         IN  IF /\ \E k \in 1..Len(parens) : Some(lower(strip(parens[k], WHITESPACE))) = gn_low
                /\ ~(sys_low # None /\ lower(cleaned) = sys_low[1])
                /\ ~(gn_low # None /\ lower(cleaned) = gn_low[1])
                /\ cleaned # <<>>
             THEN Some(cleaned)
             ELSE campaign_from_tags(Tail(tags), gn_low, sys_low)

\* rule 3: the title without "Session <digits>", spaces collapsed, separators trimmed
title_candidate(title) ==
    strip(collapse_whitespace(strip(SESSION_NUM_RE_sub(title), WHITESPACE)), SEPARATORS)

infer_campaign_name(tags, title, group_name, system_name, url) ==
    LET sys_low   == lower_or_none(system_name)
        gn_low    == lower_or_none(group_name)
        from_tags == IF Truthy(tags) /\ Truthy(group_name)
                     THEN campaign_from_tags(tags[1], gn_low, sys_low) ELSE None
        from_url  == infer_campaign_from_url(url)
    IN  IF from_tags # None THEN from_tags
        ELSE IF Truthy(from_url) /\ ~(sys_low # None /\ lower(from_url[1]) = sys_low[1])
             THEN from_url
        ELSE IF Truthy(title) /\ title_candidate(title[1]) # <<>>
             THEN IF sys_low # None /\ lower(title_candidate(title[1])) = sys_low[1]
                  THEN None ELSE Some(title_candidate(title[1]))
        ELSE None

\* ------------------------------------------- the merge as a pure function
TEXT_FIELDS == {"title", "author", "group_name", "system_name", "campaign_name", "download_url"}
LIST_FIELDS == {"tags", "youtube_urls"}
ENRICHABLE  == TEXT_FIELDS \cup LIST_FIELDS \cup {"published_at", "duration_seconds", "file_size_bytes"}

\* a row with every column filled by an earlier writer
FullRow ==
    [lastmod |-> Some(1),
     title |-> Some("T0"), author |-> Some("A0"), published_at |-> Some(6), tags |-> Some({"o"}),
     group_name |-> Some("G0"), system_name |-> Some("S0"), campaign_name |-> Some("C0"),
     duration_seconds |-> Some(60), duration_source |-> Some("manual"),
     download_url |-> Some("D0"), file_size_bytes |-> Some(512), youtube_urls |-> Some({"w"}),
     extracted_at |-> None, extract_attempts |-> 0, last_extract_error |-> Some("E0")]

\* rows update_post_extracted may meet: new, full, and full but for one column
STORED_ROWS ==
    {DefaultRow(Some(1)), FullRow}
    \cup {[FullRow EXCEPT ![f] = v] : f \in TEXT_FIELDS, v \in {None, Some("")}}
    \cup {[FullRow EXCEPT ![f] = None] : f \in ENRICHABLE \ TEXT_FIELDS}

MergeInit ==
    /\ \E r \in STORED_ROWS : store = [u \in {"u1"} |-> r]
    /\ clock = 0
    /\ pc = "idle"
    /\ limit = 0 /\ repeat = 0 /\ until_empty = FALSE /\ max_pages = 0
    /\ batch_num = 0 /\ total_processed = 0 /\ total_updated = 0
    /\ rows = <<>> /\ i = 0 /\ updated = 0 /\ processed = 0
    /\ ex = NoExtract
    /\ outcome = "none"
    /\ stop = "none"
    /\ attempted = {}
    /\ snapshot = None
    /\ rerun = FALSE
    /\ runlog = <<>>
    /\ inf = NoInference

\* update_post_extracted(url, **fields of ex) and its commit
Merge ==
    \E u \in DOMAIN store, p \in MERGE_PAGES :
        /\ store[u].extract_attempts < MaxAttempts
        /\ ex' = extract_post_fields(p)
        /\ clock' = clock + 1
        /\ store' = update_post_extracted(store, u, ex', clock')
        /\ UNCHANGED <<inf, pc, limit, repeat, until_empty, max_pages, batch_num,
                       total_processed, total_updated, rows, i, updated, processed,
                       outcome, stop, attempted, snapshot, rerun, runlog>>

MergeNext == Merge

MergeSpec == MergeInit /\ [][MergeNext]_vars

\* ------------------------------------- the inference as pure functions

\* reference lists (data/groups.txt, data/systems.txt): missing file, two
\* orders of the same names, names one inside the other, a name listed twice
KNOWN_LISTS ==
    {<<>>,
     <<Str("Fate"), Str("Gurps")>>,
     <<Str("Gurps"), Str("Fate")>>,
     <<Str("Fate"), Str("Fate Core"), Str("Fate")>>,
     <<Str("Fate Core"), Str("Fate")>>}

\* tags and page text handed to infer_group_name / infer_system_name
INFER_TAGS ==
    {None,
     Some(<<>>),
     Some(<<Str("Fate")>>),
     Some(<<Str("Fate Core (RPGMP3)")>>),
     Some(<<Str("GURPS (Fate)")>>),
     Some(<<Str("Fate and Gurps")>>),
     Some(<<Str("Fate"), Str("Gurps")>>),
     Some(<<Str("Other")>>)}

PAGE_TEXTS ==
    {None,
     Some(<<>>),
     Some(Str("fate gurps fate")),
     Some(Str("Gurps"))}

\* arguments of infer_campaign_name
CAMPAIGN_TAGS ==
    {None,
     Some(<<Str("Kingmaker (RPGMP3)")>>),
     Some(<<Str("Pathfinder (RPGMP3)"), Str("Skull (RPGMP3)")>>),
     Some(<<Str("Pathfinder (RPGMP3)")>>),
     Some(<<Str("RPGMP3 (rpgmp3)")>>),
     Some(<<Str("(RPGMP3)")>>),
     Some(<<Str("Kingmaker (Other)")>>)}

TITLES ==
    {None,
     Some(<<>>),
     Some(Str("Pathfinder Session 3")),
     Some(Str("Skull Session 12 - Part")),
     Some(Str("Session 4"))}

GROUP_NAMES ==
    {None,
     Some(<<>>),
     Some(Str("RPGMP3"))}

SYSTEM_NAMES ==
    {None,
     Some(Str("Pathfinder")),
     Some(Str("Skull"))}

POST_URLS ==
    {None,
     Some(Str("https://x.io/pathfinder-session-3/")),
     Some(Str("https://x.io/a/giant-slayer-session-16")),
     Some(Str("https://x.io/")),
     Some(Str("https://x.io/-session-2/"))}

\* a call of fn that has not run yet
InferCall(fn, known, tags, page_text, title, group_name, system_name, url) ==
    [fn |-> fn, done |-> FALSE, known |-> known, tags |-> tags, page_text |-> page_text,
     title |-> title, group_name |-> group_name, system_name |-> system_name, url |-> url,
     scores |-> <<>>, result |-> None]

INFER_CALLS ==
    {InferCall(fn, k, t, pt, None, None, None, None) :
        fn \in {"infer_group_name", "infer_system_name"},
        k \in KNOWN_LISTS, t \in INFER_TAGS, pt \in PAGE_TEXTS}
    \cup {InferCall("infer_campaign_name", <<>>, t, None, ti, g, sy, u) :
        t \in CAMPAIGN_TAGS, ti \in TITLES, g \in GROUP_NAMES, sy \in SYSTEM_NAMES,
        u \in POST_URLS}

InferInit ==
    /\ store = [u \in {} |-> DefaultRow(None)]
    /\ clock = 0
    /\ pc = "idle"
    /\ limit = 0 /\ repeat = 0 /\ until_empty = FALSE /\ max_pages = 0
    /\ batch_num = 0 /\ total_processed = 0 /\ total_updated = 0
    /\ rows = <<>> /\ i = 0 /\ updated = 0 /\ processed = 0
    /\ ex = NoExtract
    /\ outcome = "none"
    /\ stop = "none"
    /\ attempted = {}
    /\ snapshot = None
    /\ rerun = FALSE
    /\ runlog = <<>>
    /\ inf \in INFER_CALLS

InferGroupName ==
    /\ inf.fn = "infer_group_name" /\ ~inf.done
    /\ inf' = [inf EXCEPT !.done = TRUE,
                          !.scores = infer_scores(inf.known, inf.tags, inf.page_text),
                          !.result = infer_group_name(inf.known, inf.tags, inf.page_text)]
    /\ UNCHANGED <<store, clock, runVars, snapshot, rerun>>

InferSystemName ==
    /\ inf.fn = "infer_system_name" /\ ~inf.done
    /\ inf' = [inf EXCEPT !.done = TRUE,
                          !.scores = infer_scores(inf.known, inf.tags, inf.page_text),
                          !.result = infer_system_name(inf.known, inf.tags, inf.page_text)]
    /\ UNCHANGED <<store, clock, runVars, snapshot, rerun>>

InferCampaignName ==
    /\ inf.fn = "infer_campaign_name" /\ ~inf.done
    /\ inf' = [inf EXCEPT !.done = TRUE,
                          !.result = infer_campaign_name(inf.tags, inf.title, inf.group_name,
                                                         inf.system_name, inf.url)]
    /\ UNCHANGED <<store, clock, runVars, snapshot, rerun>>

InferNext ==
    \/ InferGroupName
    \/ InferSystemName
    \/ InferCampaignName

InferSpec == InferInit /\ [][InferNext]_vars

\* the command is a sequential program: a started run always takes its next step
FairSpec == Spec /\ WF_vars(RunStep)


\* ================================================================ claims

\* C1: a run in until-empty mode with no page cap eventually halts with a
\* batch that selects zero records, whatever the page outcomes are (a run
\* whose process is killed is not held against the claim).
C1_UntilEmptyHaltsOnEmptyBatch ==
    (pc = "loop" /\ until_empty /\ max_pages = 0)
        ~> ((pc = "done" /\ stop = "empty") \/ pc = "crashed")

\* C2: when the fetch of a selected record fails, the failure is recorded
\* against its URL: attempt count plus one, last error set, attempted-at stamped.
C2_FetchFailureRecorded ==
    [][(pc = "batch" /\ i' = i + 1 /\ outcome' = "fetch_failed")
        => /\ store'[rows[i].url].extract_attempts = store[rows[i].url].extract_attempts + 1
           /\ store'[rows[i].url].last_extract_error # None
           /\ store'[rows[i].url].extracted_at # None]_vars

\* is the value v of the enrichable column f absent or empty
IsEmpty(f, v) ==
    \/ v = None
    \/ (f \in TEXT_FIELDS /\ v[1] = "")
    \/ (f \in LIST_FIELDS /\ v[1] = {})

\* C3: once an enrichable field of a record holds a non-empty value, it holds
\* a non-empty value after every later merge.
C3_NonEmptyStaysNonEmpty ==
    [][\A u \in DOMAIN store : \A f \in ENRICHABLE :
          ~IsEmpty(f, store[u][f]) => (u \in DOMAIN store' /\ ~IsEmpty(f, store'[u][f]))]_vars

\* C3 witness: a merge whose candidate had an empty title and author, no
\* duration and no video links went into a record that holds all four
C3_Witness ==
    \E u \in DOMAIN store :
        /\ store[u].extract_attempts >= 1
        /\ ex.title = Some("") /\ ex.author = Some("")
        /\ ex.duration_seconds = None /\ ex.youtube_urls = None
        /\ store[u].title = Some("T0") /\ store[u].author = Some("A0")
        /\ store[u].duration_seconds = Some(60) /\ store[u].youtube_urls = Some({"w"})

\* the three stop conditions, read off the loop's variables
C4_ZeroSelected     == rows = <<>> /\ processed = 0
C4_CapHit           == max_pages # 0 /\ total_processed >= max_pages
C4_BatchesExhausted == batch_num > repeat

\* C4: the loop halts only when a batch selected zero records, the processed
\* count reached the page cap or the batch count is exhausted, and it starts
\* no batch and takes no further turn once one of them holds.
C4_StopConditions ==
    [][/\ (pc # "done" /\ pc' = "done")
            => \/ (pc = "tally" /\ C4_ZeroSelected')
               \/ C4_CapHit'
               \/ (pc = "loop" /\ C4_BatchesExhausted')
       /\ (pc = "loop" /\ pc' \in {"batch", "tally"})
            => (~C4_CapHit /\ ~C4_BatchesExhausted /\ (batch_num > 1 => processed # 0))
       /\ (pc = "tally" /\ pc' = "loop")
            => (processed # 0 /\ ~C4_CapHit')
       /\ (pc = "tally" /\ processed = 0) => pc' \in {"tally", "done", "crashed"}]_vars

\* C4 witness: two batches ran, neither empty, no cap hit, and the batch
\* count ended the run
C4_Witness ==
    pc = "done" /\ stop = "repeat" /\ repeat = 2 /\ total_processed >= 2 /\ Cardinality(DOMAIN store) = 2

\* C5: with a page cap max_pages > 0 the number of records processed by one
\* run never exceeds max_pages.
C5_ProcessedWithinCap ==
    max_pages > 0 => total_processed <= max_pages

\* C6: within a batch the selected records are attempted one after the other,
\* whatever happens to each, and the batch reports all of them as processed
\* (as long as the process itself is not killed).
C6_EveryRecordAttempted ==
    [][/\ (pc = "loop" /\ pc' = "batch") => (i' = 1 /\ rows' # <<>>)
       /\ (pc = "batch" /\ i <= Len(rows) /\ pc' # "crashed")
            => (pc' = "batch" /\ rows' = rows /\ i' = i + 1 /\ rows[i].url \in attempted')
       /\ (pc = "batch" /\ i > Len(rows) /\ pc' # "crashed")
            => (pc' = "tally" /\ rows' = rows /\ processed' = Len(rows))]_vars

\* C6 witness: the first of two selected records failed, the second was
\* merged, and the batch reported two processed
C6_Witness ==
    pc = "tally" /\ Len(rows) = 2 /\ processed = 2 /\ updated = 1 /\ outcome = "ok"

\* C7: after a run that ended on an empty selection, a further run over the
\* unchanged backlog selects nothing and leaves every record as it was (it
\* ends on its first, empty batch, unless a negative page cap ends it before
\* it selects at all).
C7_SecondRunIsNoOp ==
    (rerun /\ snapshot # None)
        => /\ store = snapshot[1]
           /\ pc # "batch" /\ rows = <<>>
           /\ total_processed = 0 /\ total_updated = 0
           /\ (pc = "done" /\ max_pages >= 0 => stop = "empty")

\* C7 witness: the second run is over; the backlog holds a record that was
\* merged without yielding an author and one that yielded every field
C7_Witness ==
    /\ rerun /\ snapshot # None /\ pc = "done" /\ stop = "empty"
    /\ \E u, v \in DOMAIN store :
        /\ store[u].extracted_at # None /\ store[u].author = None
        /\ store[v].extracted_at # None /\ store[v].author = Some("A1")

\* the urls of the batch, in order
C8_Urls == {rows[k].url : k \in 1..Len(rows)}

\* C8: the selected batch has at most limit records, none of which ever had
\* an extraction attempted, in descending last-modified order with nulls
\* last, and no eligible record left out is more recent than a selected one.
C8_SelectNewestUnattempted ==
    (pc = "batch" /\ i = 1)
        => /\ Len(rows) <= limit
           /\ \A k \in 1..Len(rows) : rows[k].url \notin attempted
           /\ \A k, l \in 1..Len(rows) : k < l => ~SortsBefore(rows[l].lastmod, rows[k].lastmod)
           /\ \A u \in DOMAIN store \ C8_Urls : \A k \in 1..Len(rows) :
                 (store[u].extracted_at = None /\ Incomplete(store[u]))
                    => ~SortsBefore(store[u].lastmod, rows[k].lastmod)

\* is every enrichable column of the row r filled
FullyPopulated(r) == \A f \in ENRICHABLE : ~IsEmpty(f, r[f])

\* does the candidate e carry no field at all
AllAbsent(e) == \A f \in ENRICHABLE : e[f] = None

\* C9 as stated: merging an all-absent candidate into a fully-populated
\* record leaves the record unchanged.
C9_AllAbsentLeavesRecordUnchanged ==
    [][\A u \in DOMAIN store :
          (clock' # clock /\ AllAbsent(ex') /\ FullyPopulated(store[u]))
             => store'[u] = store[u]]_vars

\* C9 amended: merging an all-absent candidate into a fully-populated record
\* leaves every enrichable field, the duration source and last-modified
\* unchanged; the attempt count goes up by one, attempted-at is stamped and
\* the last error is cleared.
C9_AllAbsentKeepsFields ==
    [][\A u \in DOMAIN store :
          (clock' # clock /\ AllAbsent(ex') /\ FullyPopulated(store[u]))
             => /\ \A f \in ENRICHABLE \cup {"duration_source", "lastmod"} : store'[u][f] = store[u][f]
                /\ store'[u].extract_attempts = store[u].extract_attempts + 1
                /\ store'[u].extracted_at = Some(clock')
                /\ store'[u].last_extract_error = None]_vars

\* C9 witness: an all-absent candidate was merged into the full row
C9_Witness ==
    \E u \in DOMAIN store :
        /\ AllAbsent(ex) /\ FullyPopulated(store[u])
        /\ store[u].extract_attempts = 1 /\ store[u].extracted_at = Some(clock)
        /\ store[u].title = Some("T0") /\ store[u].last_extract_error = None

\* does the candidate value v of column f make it through nullif/coalesce
C10_Given(f, v) == v # None /\ (f \in TEXT_FIELDS => v[1] # "")

\* C10 as stated: a field that is already non-empty keeps its stored value,
\* and a candidate value replaces the stored one only if that was empty.
C10_FillIfEmpty ==
    [][\A u \in DOMAIN store : \A f \in ENRICHABLE :
          ~IsEmpty(f, store[u][f]) => store'[u][f] = store[u][f]]_vars

\* C10 amended: a merge sets each enrichable field to the candidate's value
\* if the candidate carries one (not absent and, for text, not empty), also
\* over a stored non-empty value, and leaves it as stored otherwise.
C10_CandidateWinsIfGiven ==
    [][clock' # clock =>
         \A u \in DOMAIN store : \A f \in ENRICHABLE :
            store'[u] # store[u]
               => store'[u][f] = IF C10_Given(f, ex'[f]) THEN ex'[f] ELSE store[u][f]]_vars

\* C10 witness: a candidate with only a title went into the full row: the
\* stored title was replaced, the stored author kept
C10_Witness ==
    \E u \in DOMAIN store :
        /\ store[u].extract_attempts >= 1
        /\ ex.title = Some("T2") /\ ex.author = None
        /\ store[u].title = Some("T2") /\ store[u].author = Some("A0")

\* C11: in an until-empty run, a record attempted in some batch of the run,
\* successfully or not, is not selected again by a later batch of that run.
C11_NoRetryWithinRun ==
    (pc = "batch" /\ i = 1 /\ until_empty)
        => \A k \in 1..Len(rows) : rows[k].url \notin DOMAIN runlog

\* do the rows a and b agree on everything but lastmod
SameButLastmod(a, b) == [a EXCEPT !.lastmod = None] = [b EXCEPT !.lastmod = None]

\* C12: every merge is committed before the next record is fetched: between
\* the records of a batch, and after a crash in the middle of the run, the
\* enrichment and bookkeeping of every record merged so far by this run are
\* in the store.
C12_CommittedSurvivesCrash ==
    pc \in {"batch", "crashed"}
        => \A u \in DOMAIN runlog :
              runlog[u] # None => SameButLastmod(store[u], runlog[u][1])

C12_Witness ==
    /\ pc = "crashed"
    /\ \E u, v \in DOMAIN runlog :
          /\ runlog[u] # None /\ store[u].extracted_at # None
          /\ runlog[v] = None

\* C16: whatever ingestions and extraction runs have happened, every record
\* has attempt count 0 or 1, and its attempted-at stamp is set exactly when
\* the count is 1.
C16_MergedAtMostOnce ==
    \A u \in DOMAIN store :
        /\ store[u].extract_attempts \in {0, 1}
        /\ (store[u].extracted_at # None) <=> (store[u].extract_attempts = 1)

C16_Witness ==
    /\ pc = "done"
    /\ \E u, v \in DOMAIN store :
          /\ store[u].extract_attempts = 1 /\ store[u].extracted_at # None
          /\ u \notin DOMAIN runlog
          /\ store[v].extract_attempts = 0 /\ store[v].extracted_at = None
          /\ v \in DOMAIN runlog

\* C17: ingesting a url the backlog already holds changes only that record's
\* lastmod: no record appears or disappears, enrichment and bookkeeping stay,
\* and a record already attempted stays out of the selection.
C17_ReingestChangesOnlyLastmod ==
    [][(pc' = pc /\ pc \in {"idle", "crashed"}
          /\ \E u \in DOMAIN store \cap DOMAIN store' : store'[u] # store[u])
        => /\ DOMAIN store' = DOMAIN store
           /\ \A v \in DOMAIN store :
                 /\ SameButLastmod(store'[v], store[v])
                 /\ store[v].extracted_at # None => ~NeedsExtract(store'[v])]_vars

C17_Witness ==
    /\ pc = "idle"
    /\ \E u \in DOMAIN runlog :
          /\ runlog[u] # None
          /\ store[u].extracted_at # None /\ Incomplete(store[u])
          /\ SortsBefore(store[u].lastmod, runlog[u][1].lastmod)

\* an inference call of group or system that has returned
C13_Returned == inf.fn \in {"infer_group_name", "infer_system_name"} /\ inf.done

\* the haystacks of the call, lower-cased texts with their weights
C13_Hay == haystacks(inf.tags, inf.page_text)

C13_Equals(g, k) == lower(C13_Hay[k][1]) = lower(g)

C13_Contains(g, k) == contains(lower(C13_Hay[k][1]), lower(g))

\* the sum of the numbers of a sequence
RECURSIVE SumSeq(_)
SumSeq(q) == IF q = <<>> THEN 0 ELSE q[1] + SumSeq(Tail(q))

\* the greatest score of the dict (0 for an empty one)
C13_Best == IF inf.scores = <<>> THEN 0
            ELSE CHOOSE b \in {inf.scores[k][2] : k \in 1..Len(inf.scores)} :
                    \A k \in 1..Len(inf.scores) : inf.scores[k][2] <= b

\* C13 as stated: the score of a name is the sum over the haystacks of 10
\* if the haystack equals the name plus the weight if it contains the name,
\* both when both hold; the result is absent when the best score is 0.
C13_ScoreCumulative ==
    C13_Returned
        => /\ \A n \in 1..Len(inf.scores) :
                 inf.scores[n][2] =
                    SumSeq([k \in 1..Len(C13_Hay) |->
                              (IF C13_Equals(inf.scores[n][1], k) THEN EXACT_SCORE ELSE 0)
                              + (IF C13_Contains(inf.scores[n][1], k) THEN C13_Hay[k][2] ELSE 0)])
           /\ (C13_Best = 0 => inf.result = None)

\* C13, amended: a haystack that equals the name adds 10 and nothing else, one
\* that contains it without being equal adds its weight; the sum counts once
\* for each time the name is listed; the result is absent exactly when the
\* best score is 0, and is a name of the best score otherwise.
C13_ScoreExactOrContains ==
    C13_Returned
        => /\ \A n \in 1..Len(inf.scores) :
                 inf.scores[n][2] =
                    Cardinality({j \in 1..Len(inf.known) : inf.known[j] = inf.scores[n][1]})
                    * ( EXACT_SCORE * Cardinality({k \in 1..Len(C13_Hay) :
                                                     C13_Equals(inf.scores[n][1], k)})
                        + SumSeq([k \in 1..Len(C13_Hay) |->
                                    IF C13_Contains(inf.scores[n][1], k)
                                       /\ ~C13_Equals(inf.scores[n][1], k)
                                    THEN C13_Hay[k][2] ELSE 0]) )
           /\ (inf.result = None) <=> (C13_Best = 0)
           /\ inf.result # None
                => \E n \in 1..Len(inf.scores) :
                      inf.scores[n] = <<inf.result[1], C13_Best>>

C13_Witness ==
    /\ C13_Returned
    /\ inf.known = <<Str("Fate Core"), Str("Fate")>>
    /\ inf.tags = Some(<<Str("Fate"), Str("Gurps")>>)
    /\ inf.page_text = Some(Str("fate gurps fate"))
    /\ inf.scores = <<<<Str("Fate Core"), 0>>, <<Str("Fate"), 11>>>>
    /\ inf.result = Some(Str("Fate"))

\* position of the first occurrence of the name g in the list known
C14_FirstIndex(known, g) == Least({k \in 1..Len(known) : known[k] = g})

\* C14: when several reference names share the greatest positive score, the
\* one listed first in the reference list is returned.
C14_TieGoesToFirstListed ==
    C13_Returned /\ C13_Best > 0
        => /\ inf.result # None
           /\ \A n \in 1..Len(inf.scores) :
                 inf.scores[n][2] = C13_Best
                    => C14_FirstIndex(inf.known, inf.result[1])
                          <= C14_FirstIndex(inf.known, inf.scores[n][1])

C14_Witness ==
    /\ C13_Returned
    /\ inf.known = <<Str("Gurps"), Str("Fate")>>
    /\ inf.scores = <<<<Str("Gurps"), 3>>, <<Str("Fate"), 3>>>>
    /\ inf.result = Some(Str("Gurps"))

\* a call of infer_campaign_name that has returned
C15_Returned == inf.fn = "infer_campaign_name" /\ inf.done

\* the tags rule 1 looks at
C15_Tags == IF Truthy(inf.tags) /\ Truthy(inf.group_name) THEN inf.tags[1] ELSE <<>>

C15_EqualsName(text, name) == Truthy(name) /\ lower(text) = lower(name[1])

\* the candidate of tag k: the tag without its parenthesized parts
C15_TagCandidate(k) == strip(PAREN_RE_sub(C15_Tags[k]), WHITESPACE)

\* the tags that name the group in parentheses and leave a candidate
C15_GroupTags ==
    {k \in 1..Len(C15_Tags) :
        /\ \E m \in Range(PAREN_RE_findall(C15_Tags[k])) :
              C15_EqualsName(strip(m, WHITESPACE), inf.group_name)
        /\ C15_TagCandidate(k) # <<>>}

C15_Rejected(k) ==
    \/ C15_EqualsName(C15_TagCandidate(k), inf.system_name)
    \/ C15_EqualsName(C15_TagCandidate(k), inf.group_name)

\* what rules 2 and 3 give when rule 1 gives nothing
C15_UrlThenTitle ==
    LET u == infer_campaign_from_url(inf.url)
    IN  IF u # None /\ ~C15_EqualsName(u[1], inf.system_name) THEN u
        ELSE IF Truthy(inf.title) /\ title_candidate(inf.title[1]) # <<>>
             THEN IF C15_EqualsName(title_candidate(inf.title[1]), inf.system_name)
                  THEN None ELSE Some(title_candidate(inf.title[1]))
        ELSE None

\* C15 as stated: the rules are tried in the order tag, URL, title; a tag
\* candidate equal to the system or the group name is rejected and the next
\* rule (the URL) is tried; a URL candidate equal to the system name is
\* rejected and the title is tried; a title candidate equal to the system
\* name gives absent; no successful rule gives absent.
C15_RejectedTagGoesToUrl ==
    C15_Returned
        => inf.result =
              IF C15_GroupTags # {} /\ ~C15_Rejected(Least(C15_GroupTags))
              THEN Some(C15_TagCandidate(Least(C15_GroupTags)))
              ELSE C15_UrlThenTitle

\* C15, amended: a rejected tag candidate passes the turn to the next tag;
\* the first tag candidate that is not rejected is returned, and the URL
\* rule is tried only when no tag gives one.  The rest is as stated.
C15_RejectedTagGoesToNextTag ==
    C15_Returned
        => inf.result =
              IF \E k \in C15_GroupTags : ~C15_Rejected(k)
              THEN Some(C15_TagCandidate(Least({k \in C15_GroupTags : ~C15_Rejected(k)})))
              ELSE C15_UrlThenTitle

C15_Witness ==
    /\ C15_Returned
    /\ inf.tags = Some(<<Str("Pathfinder (RPGMP3)"), Str("Skull (RPGMP3)")>>)
    /\ inf.group_name = Some(Str("RPGMP3"))
    /\ inf.system_name = Some(Str("Pathfinder"))
    /\ inf.url = Some(Str("https://x.io/a/giant-slayer-session-16"))
    /\ inf.result = Some(Str("Skull"))

====
